---- MODULE Spec2Model ----
(***************************************************************************)
(* A model of @reece/client-functions: the server-side handler registry    *)
(* and its content-addressed naming cache (mod.ts), the handler compiler   *)
(* (ClientFunctionImpl.buildCode), the build orchestrator (build.ts) and   *)
(* the browser-side lazy dispatch proxy (client.ts).                       *)
(*                                                                         *)
(* JavaScript strings are TLA+ strings; Len, SubSeq and \o act on them as  *)
(* on sequences of characters.                                             *)
(***************************************************************************)
EXTENDS Integers, Sequences, FiniteSets, TLC

(***************************************************************************)
(* Bounds of the model.                                                    *)
(***************************************************************************)
\* Distinct successful registrations (name, function, locator) of a process.
MaxRegs == 2

\* import() calls made by the handler proxy of a page.
MaxLoads == 2

\* Calls of the functions the handler proxy returns.
MaxCalls == 2

\* Calls of buildScriptFiles in a process.
MaxBuilds == 2

(***************************************************************************)
(* JavaScript values.                                                      *)
(***************************************************************************)
\* The value `undefined` (a locator that was not supplied, a missing key).
Undefined == "<undefined>"

\* `number | null`: a sequence holding the number, or the empty sequence.
Null == <<>>

Some(n) == <<n>>

\* An object or Map with no entries.
EmptyMap == [k \in {} |-> Undefined]

\* if (v) for a string-or-undefined value v.
Truthy(v) == v # Undefined /\ v # ""

(***************************************************************************)
(* Strings.                                                                *)
(***************************************************************************)
\* The printable ASCII characters from code 35 (#) to code 91 ([), in order.
AsciiLow == "#$%&'()*+,-./0123456789:;<=>?@ABCDEFGHIJKLMNOPQRSTUVWXYZ["

\* The printable ASCII characters from code 97 (a) to code 126 (~), in order.
AsciiHigh == "abcdefghijklmnopqrstuvwxyz{|}~"

CharAt(s, i) == SubSeq(s, i, i)

IndexIn(table, c) == CHOOSE k \in 1..Len(table) : CharAt(table, k) = c

\* String.prototype.charCodeAt for the printable ASCII characters that the
\* modelled texts hold (all but the double quote, the backslash, the caret
\* and the backquote).
CharCodeAt(s, i) ==
    LET c == CharAt(s, i)
    IN  IF c = " " THEN 32
        ELSE IF c = "!" THEN 33
        ELSE IF c = "]" THEN 93
        ELSE IF c = "_" THEN 95
        ELSE IF \E k \in 1..Len(AsciiLow) : CharAt(AsciiLow, k) = c
             THEN 34 + IndexIn(AsciiLow, c)
        ELSE 96 + IndexIn(AsciiHigh, c)

\* String.prototype.endsWith
EndsWith(s, suffix) ==
    /\ Len(s) >= Len(suffix)
    /\ SubSeq(s, Len(s) - Len(suffix) + 1, Len(s)) = suffix

\* String.prototype.startsWith
StartsWith(s, prefix) ==
    /\ Len(s) >= Len(prefix)
    /\ SubSeq(s, 1, Len(prefix)) = prefix

\* s.split(".")[0]: the part of s before its first '.', all of s if it has none.
SplitDotFirst(s) ==
    LET dots == {i \in 1..Len(s) : CharAt(s, i) = "."}
    IN  IF dots = {} THEN s
        ELSE SubSeq(s, 1, (CHOOSE i \in dots : \A j \in dots : i <= j) - 1)

(***************************************************************************)
(* The 32-bit rolling hash of mod.ts lines 169-175.  A 32-bit word is kept *)
(* as two 16-bit halves <<hi, lo>> so that no intermediate value leaves    *)
(* the integers of the checker; the arithmetic is that of `|0`.            *)
(***************************************************************************)
Half == 65536

\* hash = ((hash << 5) - hash) + code; hash |= 0      (31*hash + code mod 2^32)
HashStep(h, code) ==
    LET lo == h[2] * 31 + code
        hi == h[1] * 31 + (lo \div Half)
    IN  <<hi % Half, lo % Half>>

RECURSIVE HashFrom(_, _, _)
HashFrom(str, i, h) ==
    IF i > Len(str) THEN h
    ELSE HashFrom(str, i + 1, HashStep(h, CharCodeAt(str, i)))

\* The loop of lines 170-174 over the whole string, starting from 0.
Hash32(str) == HashFrom(str, 1, <<0, 0>>)

\* The sign of the 32-bit word read as a signed integer.
IsNegative32(h) == h[1] >= Half \div 2

\* Math.abs of the signed 32-bit word, as an unsigned word (2^31 for -2^31).
Abs32(h) ==
    IF ~IsNegative32(h) THEN h
    ELSE IF h[2] = 0 THEN <<(Half - h[1]) % Half, 0>>
    ELSE <<Half - 1 - h[1], Half - h[2]>>

HexDigits == "0123456789abcdef"

\* Number.prototype.toString(16) of a natural number below 2^16.
RECURSIVE Hex(_)
Hex(n) ==
    IF n < 16 THEN CharAt(HexDigits, n + 1)
    ELSE Hex(n \div 16) \o CharAt(HexDigits, (n % 16) + 1)

\* The four hexadecimal digits of a 16-bit half, leading zeros kept.
Hex4(n) ==
    LET s == Hex(n)
    IN  SubSeq("000", 1, 4 - Len(s)) \o s

\* Math.abs(hash).toString(16)
AbsHex(h) ==
    LET a == Abs32(h)
    IN  IF a[1] = 0 THEN Hex(a[2]) ELSE Hex(a[1]) \o Hex4(a[2])

\* `${fnName}_${Math.abs(hash).toString(16)}`
HashedFilename(fnName, str) == fnName \o "_" \o AbsHex(Hash32(str))

(***************************************************************************)
(* Inputs: handler names, function values, defining-file locators.         *)
(***************************************************************************)
\* Handler names.  "filename" is also the name of a field of the wrapper.
Names == {"ping", "pong", "filename"}

\* Function values (distinct objects).
Fns == {"f1", "f2"}

\* fn.toString(): the source text of a function value.
FnSource(fn) == IF fn = "f1" THEN "function(){return 1}" ELSE "function(e){}"

\* Values that are not functions.
NonFns == {"42"}

\* typeof v
TypeOf(v) == IF v \in Fns THEN "function" ELSE "number"

\* Defining-file locators (import.meta.url of two source files).
Locators == {"file:///a.ts", "file:///b.ts"}

\* The third argument of the constructor: a locator, or not supplied.
LocatorArgs == Locators \cup {Undefined}

\* The source texts of the function values.
Sources == {FnSource(fn) : fn \in Fns}

\* Lines 169-175 for every name and source text that can be registered: the
\* id is a function of the two alone, so it is computed once for each pair.
ResolvedByHashing ==
    [fnName \in Names, str \in Sources |-> HashedFilename(fnName, str)]

\* The names the registry specification registers.
RegistryNames == {"ping", "filename"}

\* The mtimes of the source files when the process starts: a.ts has been
\* edited since the previous run (which saw mtime 1 for both files), b.ts has
\* not, or cannot be read.
InitialMtimes ==
    {("file:///a.ts" :> Some(2)) @@ ("file:///b.ts" :> m) : m \in {Null, Some(1)}}

(***************************************************************************)
(* State.                                                                  *)
(***************************************************************************)
VARIABLES
    \* the file system, shared by all runs of the process
    cacheFile,              \* the document at CACHE_PATH
    fileMtime,              \* locator -> mtime of the source file, Null if unreadable
    \* module state of mod.ts
    cacheLoaded,
    cacheDirty,
    cacheFlushScheduled,
    microtasks,             \* the flush microtasks queued and not yet run
    cache,
    sourceFileMtimeMemo,
    handlers,               \* Map<fn, wrapper> in insertion order
    importsBySourceFileUrl, \* Map<key, Map<name, filename>>
    \* a call of buildCode() and the transform it awaits
    compile,
    \* the handler proxy of a page
    target,                 \* the object behind the proxy: name -> function
    loads,                  \* the import() calls made by the get trap
    calls,                  \* the calls of the functions the trap returned
    \* the build
    publicDir,              \* the output directory
    clientDir,              \* the entries of the client directory, in scan order
    build,                  \* the latest call of buildScriptFiles
    tasks,                  \* its step-3 tasks, in the order of Promise.all
    prev,                   \* the build that returned before it
    \* observations
    registered,             \* the constructor calls that returned, as a set
    last                    \* the outcome of the latest step

modVars == <<cacheLoaded, cacheDirty, cacheFlushScheduled, microtasks, cache,
             sourceFileMtimeMemo, handlers, importsBySourceFileUrl>>

fsVars == <<cacheFile, fileMtime>>

compileVars == <<compile>>

proxyVars == <<target, loads, calls>>

buildVars == <<publicDir, clientDir, build, tasks, prev>>

vars == <<cacheFile, fileMtime, cacheLoaded, cacheDirty, cacheFlushScheduled,
          microtasks,
          cache, sourceFileMtimeMemo, handlers, importsBySourceFileUrl,
          compile, target, loads, calls, publicDir, clientDir, build, tasks,
          prev, registered, last>>

(***************************************************************************)
(* The cache file (mod.ts lines 24-62).                                    *)
(***************************************************************************)
\* let cache = { version: 1, files: {} }
EmptyCache == [version |-> 1, files |-> EmptyMap]

\* The file does not exist: readTextFileSync throws.
MissingDoc == [kind |-> "missing", version |-> 0, filesIsObject |-> FALSE,
               files |-> EmptyMap]

\* The file holds text that is not JSON: JSON.parse throws.
GarbageDoc == [kind |-> "garbage", version |-> 0, filesIsObject |-> FALSE,
               files |-> EmptyMap]

\* JSON.stringify(cache, null, 2), as the document JSON.parse reads back.
Stringify(c) == [kind |-> "json", version |-> c.version, filesIsObject |-> TRUE,
                 files |-> c.files]

\* The cache a previous run leaves behind after registering ping (f1) and
\* filename (f2) in a.ts and ping (f2) and filename (f1) in b.ts, both files
\* having mtime 1.
PreviousRunCache ==
    [version |-> 1,
     files |->
        ("file:///a.ts" :>
            [mtimeMs |-> 1,
             handlers |-> ("ping" :> ResolvedByHashing["ping", FnSource("f1")])
                          @@ ("filename" :> ResolvedByHashing["filename", FnSource("f2")])])
        @@ ("file:///b.ts" :>
            [mtimeMs |-> 1,
             handlers |-> ("ping" :> ResolvedByHashing["ping", FnSource("f2")])
                          @@ ("filename" :> ResolvedByHashing["filename", FnSource("f1")])])]

\* A JSON document of another version.
WrongVersionDoc == [kind |-> "json", version |-> 2, filesIsObject |-> TRUE,
                    files |-> PreviousRunCache.files]

\* A version-1 JSON document whose `files` is not an object.
NoFilesDoc == [kind |-> "json", version |-> 1, filesIsObject |-> FALSE,
               files |-> EmptyMap]

\* A version-1 JSON document whose entries have an mtimeMs and no `handlers`:
\* the entry of a.ts carries the mtime a.ts has now, the entry of b.ts an
\* older one.
ShapelessDoc ==
    [kind |-> "json", version |-> 1, filesIsObject |-> TRUE,
     files |-> ("file:///a.ts" :> [mtimeMs |-> 2])
               @@ ("file:///b.ts" :> [mtimeMs |-> 0])]

\* The documents the cache file may hold when a process starts.
InitialDocs == {MissingDoc, Stringify(PreviousRunCache)}

\* loadCacheOnce: the in-memory cache once the file has been consulted.
LoadCacheOnce(loaded, c, doc) ==
    IF loaded THEN c
    ELSE IF doc.kind = "json" /\ doc.version = 1 /\ doc.filesIsObject
         THEN [version |-> doc.version, files |-> doc.files]
    ELSE c

(***************************************************************************)
(* getSourceFileMtimeMs (mod.ts lines 79-93).                              *)
(***************************************************************************)
\* A variant that reports an unreadable mtime as the number 0 instead of null.
GetSourceFileMtimeMsZero(memo, mtimes, sourceFileUrl) ==
    LET value == IF sourceFileUrl \in DOMAIN memo THEN memo[sourceFileUrl]
                 ELSE mtimes[sourceFileUrl]
    IN  IF value = Null THEN Some(0) ELSE value

\* The value returned for a locator: the memo if there is one, else the stat.
GetSourceFileMtimeMs(memo, mtimes, sourceFileUrl) ==
    IF sourceFileUrl \in DOMAIN memo THEN memo[sourceFileUrl]
    ELSE mtimes[sourceFileUrl]

\* The memo after the call.
MemoAfter(memo, mtimes, sourceFileUrl) ==
    IF sourceFileUrl \in DOMAIN memo THEN memo
    ELSE (sourceFileUrl :> mtimes[sourceFileUrl]) @@ memo

(***************************************************************************)
(* scheduleCacheFlush (mod.ts lines 64-77).                                *)
(***************************************************************************)
\* A variant that queues nothing.
ScheduleCacheFlushNever(dirty, scheduled, queued) ==
    [scheduled |-> scheduled, queued |-> queued]

\* A variant that queues a microtask whenever the cache is dirty.
ScheduleCacheFlushEveryTime(dirty, scheduled, queued) ==
    IF ~dirty THEN [scheduled |-> scheduled, queued |-> queued]
    ELSE [scheduled |-> TRUE, queued |-> queued + 1]

\* scheduleCacheFlush(), lines 64-67: the flag and the number of queued
\* microtasks after the call.
ScheduleCacheFlush(dirty, scheduled, queued) ==
    IF ~dirty \/ scheduled THEN [scheduled |-> scheduled, queued |-> queued]
    ELSE [scheduled |-> TRUE, queued |-> queued + 1]

(***************************************************************************)
(* The import registries (mod.ts lines 107-116).  A Map is the sequence of *)
(* its entries in insertion order.                                         *)
(***************************************************************************)
\* const key = sourceFileUrl ?? "__global__"
RegistryKey(sourceFileUrl) ==
    IF sourceFileUrl = Undefined THEN "__global__" ELSE sourceFileUrl

\* importsBySourceFileUrl after getImportRegistry(sourceFileUrl): a registry
\* that does not exist yet is created empty.
WithRegistry(imports, sourceFileUrl) ==
    IF RegistryKey(sourceFileUrl) \in DOMAIN imports THEN imports
    ELSE (RegistryKey(sourceFileUrl) :> <<>>) @@ imports

\* registry.set(name, filename): an existing key keeps its place.
RegistrySet(registry, name, filename) ==
    IF \E i \in 1..Len(registry) : registry[i].name = name
    THEN [i \in 1..Len(registry) |->
            IF registry[i].name = name
            THEN [name |-> name, filename |-> filename]
            ELSE registry[i]]
    ELSE Append(registry, [name |-> name, filename |-> filename])

\* getImportRegistry(sourceFileUrl).set(name, filename)
ImportsSet(imports, sourceFileUrl, name, filename) ==
    LET created == WithRegistry(imports, sourceFileUrl)
        key == RegistryKey(sourceFileUrl)
    IN  [created EXCEPT ![key] = RegistrySet(@, name, filename)]

\* handlers.set(fn, wrapper): an existing key keeps its place.
HandlersSet(map, fn, wrapper) ==
    IF \E i \in 1..Len(map) : map[i].fn = fn
    THEN [i \in 1..Len(map) |->
            IF map[i].fn = fn THEN [fn |-> fn, wrapper |-> wrapper] ELSE map[i]]
    ELSE Append(map, [fn |-> fn, wrapper |-> wrapper])

\* The entry has a `handlers` property.
HasHandlers(entry) == "handlers" \in DOMAIN entry

(***************************************************************************)
(* The constructor of ClientFunctionImpl (mod.ts lines 138-197).           *)
(***************************************************************************)
\* Line 151: there is no entry for the file, or it was recorded at another mtime.
EntryIsStale(c, sourceFileUrl, mtimeMs) ==
    \/ sourceFileUrl \notin DOMAIN c.files
    \/ c.files[sourceFileUrl].mtimeMs # mtimeMs

\* A variant that records the new mtime and keeps the ids of the old entry.
ResetEntryKeepingIds(c, sourceFileUrl, mtimeMs) ==
    IF sourceFileUrl \in DOMAIN c.files
    THEN [c EXCEPT !.files[sourceFileUrl].mtimeMs = mtimeMs]
    ELSE [c EXCEPT !.files =
            (sourceFileUrl :> [mtimeMs |-> mtimeMs, handlers |-> EmptyMap]) @@ @]

\* Line 152: cache.files[sourceFileUrl] = { mtimeMs, handlers: {} }
ResetEntry(c, sourceFileUrl, mtimeMs) ==
    [c EXCEPT !.files =
        (sourceFileUrl :> [mtimeMs |-> mtimeMs, handlers |-> EmptyMap]) @@ @]

\* Line 157: cache.files[sourceFileUrl].handlers[fnName]
CachedFilename(c, sourceFileUrl, fnName) ==
    IF fnName \in DOMAIN c.files[sourceFileUrl].handlers
    THEN c.files[sourceFileUrl].handlers[fnName]
    ELSE Undefined

\* A variant that forgets to store the id.
StoreFilenameNowhere(c, sourceFileUrl, mtimeMs, fnName, filename) == c

\* Lines 178-179: the entry is created if missing and the id stored under fnName.
StoreFilename(c, sourceFileUrl, mtimeMs, fnName, filename) ==
    LET c1 == IF sourceFileUrl \in DOMAIN c.files THEN c
              ELSE ResetEntry(c, sourceFileUrl, mtimeMs)
    IN  [c1 EXCEPT !.files[sourceFileUrl].handlers = (fnName :> filename) @@ @]

\* Line 192: `handlers.${this.filename}(this, event)`
HandlerInvocation(filename) == "handlers." \o filename \o "(this, event)"

\* Lines 186-192: the own properties of the new object, assigned in order; the
\* property named fnName is assigned last and replaces a field of that name.
Wrapper(fnName, fn, resolvedFilename, sourceFileUrl) ==
    LET fields == [fnName |-> fnName, fn |-> fn, filename |-> resolvedFilename,
                   sourceFileUrl |-> sourceFileUrl]
    IN  (fnName :> HandlerInvocation(fields.filename)) @@ fields

\* A variant that throws only after loadCacheOnce() has run.
RejectedAfterLoad ==
    [threw |-> TRUE, cacheLoaded |-> TRUE,
     cache |-> LoadCacheOnce(cacheLoaded, cache, cacheFile),
     cacheDirty |-> cacheDirty, cacheFlushScheduled |-> cacheFlushScheduled,
     microtasks |-> microtasks, thrown |-> "throw",
     memo |-> sourceFileMtimeMemo, handlers |-> handlers,
     imports |-> importsBySourceFileUrl,
     hashed |-> FALSE, dropped |-> {}, cacheRead |-> FALSE,
     resolvedFilename |-> Undefined, wrapper |-> EmptyMap]

\* Lines 139-141: the constructor throws before it has touched anything.
Rejected ==
    [threw |-> TRUE, cacheLoaded |-> cacheLoaded, cache |-> cache,
     cacheDirty |-> cacheDirty, cacheFlushScheduled |-> cacheFlushScheduled,
     microtasks |-> microtasks, thrown |-> "throw",
     memo |-> sourceFileMtimeMemo, handlers |-> handlers,
     imports |-> importsBySourceFileUrl,
     hashed |-> FALSE, dropped |-> {}, cacheRead |-> FALSE,
     resolvedFilename |-> Undefined, wrapper |-> EmptyMap]

\* Lines 143-196: the constructor called with a function, run on the current
\* state: what it leaves in each variable of the module and what it did.
Constructed(fnName, fn, sourceFileUrl) ==
    LET loaded == LoadCacheOnce(cacheLoaded, cache, cacheFile)
        hasUrl == Truthy(sourceFileUrl)
        sourceMtimeMs ==
            IF hasUrl
            THEN GetSourceFileMtimeMs(sourceFileMtimeMemo, fileMtime, sourceFileUrl)
            ELSE Null
        memo == IF hasUrl
                THEN MemoAfter(sourceFileMtimeMemo, fileMtime, sourceFileUrl)
                ELSE sourceFileMtimeMemo
        usesCache == hasUrl /\ sourceMtimeMs # Null
        stale == usesCache /\ EntryIsStale(loaded, sourceFileUrl, sourceMtimeMs[1])
        checked == IF stale THEN ResetEntry(loaded, sourceFileUrl, sourceMtimeMs[1])
                   ELSE loaded
        cachedFilename ==
            IF usesCache THEN CachedFilename(checked, sourceFileUrl, fnName)
            ELSE Undefined
        hit == Truthy(cachedFilename)
        resolvedFilename ==
            IF hit THEN cachedFilename
            ELSE ResolvedByHashing[fnName, FnSource(fn)]
        stored == ~hit /\ usesCache
        final == IF stored
                 THEN StoreFilename(checked, sourceFileUrl, sourceMtimeMs[1],
                                    fnName, resolvedFilename)
                 ELSE checked
        dirty == cacheDirty \/ stale \/ stored
        afterReset ==
            IF stale
            THEN ScheduleCacheFlush(TRUE, cacheFlushScheduled, microtasks)
            ELSE [scheduled |-> cacheFlushScheduled, queued |-> microtasks]
        afterStore ==
            IF stored
            THEN ScheduleCacheFlush(TRUE, afterReset.scheduled, afterReset.queued)
            ELSE afterReset
        this == Wrapper(fnName, fn, resolvedFilename, sourceFileUrl)
    IN  [threw |-> FALSE, thrown |-> "", cacheLoaded |-> TRUE, cache |-> final,
         cacheDirty |-> dirty, cacheFlushScheduled |-> afterStore.scheduled,
         microtasks |-> afterStore.queued,
         memo |-> memo, handlers |-> HandlersSet(handlers, fn, this),
         imports |-> ImportsSet(importsBySourceFileUrl, sourceFileUrl, fnName,
                                this["filename"]),
         hashed |-> ~hit,
         dropped |-> IF /\ stale
                        /\ sourceFileUrl \in DOMAIN loaded.files
                        /\ HasHandlers(loaded.files[sourceFileUrl])
                     THEN DOMAIN loaded.files[sourceFileUrl].handlers
                     ELSE {},
         cacheRead |-> usesCache,
         resolvedFilename |-> resolvedFilename, wrapper |-> this]

\* Lines 147-157: the entry of the file is current and has no `handlers`, so
\* that the lookup `cache.files[sourceFileUrl].handlers[fnName]` reads a
\* property of undefined.
LookupThrows(sourceFileUrl) ==
    LET loaded == LoadCacheOnce(cacheLoaded, cache, cacheFile)
        sourceMtimeMs ==
            IF Truthy(sourceFileUrl)
            THEN GetSourceFileMtimeMs(sourceFileMtimeMemo, fileMtime, sourceFileUrl)
            ELSE Null
    IN  /\ Truthy(sourceFileUrl)
        /\ sourceMtimeMs # Null
        /\ ~EntryIsStale(loaded, sourceFileUrl, sourceMtimeMs[1])
        /\ ~HasHandlers(loaded.files[sourceFileUrl])

\* Lines 143-157 when the lookup throws a TypeError: the cache has been
\* loaded and the mtime memoized, nothing else has happened.
ThrownAtLookup(sourceFileUrl) ==
    [threw |-> TRUE, thrown |-> "typeerror", cacheLoaded |-> TRUE,
     cache |-> LoadCacheOnce(cacheLoaded, cache, cacheFile),
     cacheDirty |-> cacheDirty, cacheFlushScheduled |-> cacheFlushScheduled,
     microtasks |-> microtasks,
     memo |-> MemoAfter(sourceFileMtimeMemo, fileMtime, sourceFileUrl),
     handlers |-> handlers, imports |-> importsBySourceFileUrl,
     hashed |-> FALSE, dropped |-> {}, cacheRead |-> FALSE,
     resolvedFilename |-> Undefined, wrapper |-> EmptyMap]

\* The constructor (lines 138-197).
Construct(fnName, fn, sourceFileUrl) ==
    IF TypeOf(fn) # "function" THEN Rejected
    ELSE IF LookupThrows(sourceFileUrl) THEN ThrownAtLookup(sourceFileUrl)
    ELSE Constructed(fnName, fn, sourceFileUrl)

\* What a step other than a constructor call leaves in `last`.
Outcome(op) ==
    [op |-> op, fnName |-> "", fn |-> "", sourceFileUrl |-> Undefined,
     resolvedFilename |-> Undefined, hashed |-> FALSE, dropped |-> {},
     cacheRead |-> FALSE, again |-> FALSE, wrapper |-> EmptyMap]

\* A constructor call as `registered` keeps it.
Registration(fnName, fn, sourceFileUrl, resolvedFilename) ==
    [fnName |-> fnName, source |-> FnSource(fn), sourceFileUrl |-> sourceFileUrl,
     resolvedFilename |-> resolvedFilename]

\* The call repeats a registration, throws, or is one of the first `max`
\* distinct registrations of the process.
WithinRegs(max, fnName, fn, sourceFileUrl) ==
    LET r == Construct(fnName, fn, sourceFileUrl)
        reg == Registration(fnName, fn, sourceFileUrl, r.resolvedFilename)
    IN  r.threw \/ reg \in registered \/ Cardinality(registered) < max

\* new ClientFunction(fnName, fn, sourceFileUrl)
Register(fnName, fn, sourceFileUrl) ==
    LET r == Construct(fnName, fn, sourceFileUrl)
        reg == Registration(fnName, fn, sourceFileUrl, r.resolvedFilename)
    IN  /\ cacheLoaded' = r.cacheLoaded
        /\ cache' = r.cache
        /\ cacheDirty' = r.cacheDirty
        /\ cacheFlushScheduled' = r.cacheFlushScheduled
        /\ microtasks' = r.microtasks
        /\ sourceFileMtimeMemo' = r.memo
        /\ handlers' = r.handlers
        /\ importsBySourceFileUrl' = r.imports
        /\ registered' = IF r.threw THEN registered ELSE registered \cup {reg}
        /\ last' = IF r.threw THEN [Outcome(r.thrown) EXCEPT !.fn = fn]
                   ELSE [op |-> "register", fnName |-> fnName, fn |-> fn,
                         sourceFileUrl |-> sourceFileUrl,
                         resolvedFilename |-> r.resolvedFilename,
                         hashed |-> r.hashed, dropped |-> r.dropped,
                         cacheRead |-> r.cacheRead, again |-> reg \in registered,
                         wrapper |-> r.wrapper]
        /\ UNCHANGED <<cacheFile, fileMtime, compileVars, proxyVars, buildVars>>

(***************************************************************************)
(* The flush microtask (mod.ts lines 67-76) runs when the synchronous work *)
(* that queued it has ended.  The write of the file succeeds or throws.    *)
(***************************************************************************)
FlushMicrotask ==
    /\ microtasks > 0
    /\ microtasks' = microtasks - 1
    /\ cacheFlushScheduled' = FALSE
    /\ \/ /\ ~cacheDirty
          /\ last' = Outcome("flush-clean")
          /\ UNCHANGED <<cacheFile, cacheDirty>>
       \/ /\ cacheDirty
          /\ cacheFile' = Stringify(cache)
          /\ cacheDirty' = FALSE
          /\ last' = Outcome("flush-written")
       \/ /\ cacheDirty
          /\ last' = Outcome("flush-failed")
          /\ UNCHANGED <<cacheFile, cacheDirty>>
    /\ UNCHANGED <<fileMtime, cacheLoaded, cache, sourceFileMtimeMemo, handlers,
                   importsBySourceFileUrl, registered, compileVars, proxyVars,
                   buildVars>>

(***************************************************************************)
(* register and buildCode (mod.ts lines 203-247).                          *)
(***************************************************************************)
\* The function value whose source text is `source`.
FnOf(source) == CHOOSE fn \in Fns : FnSource(fn) = source

\* The object a registration returned.
WrapperOf(reg) ==
    Wrapper(reg.fnName, FnOf(reg.source), reg.resolvedFilename, reg.sourceFileUrl)

\* Lines 225-227: the import statement of one registry entry.
ImportLine(name, filename) ==
    "import { default as " \o name \o " } from \"./" \o filename \o ".js\";"

\* Lines 222-228: the statements of the entries that have neither the name
\* nor the filename of the wrapper, in the order of the registry.
RECURSIVE ImportLines(_, _)
ImportLines(w, registry) ==
    IF registry = <<>> THEN <<>>
    ELSE LET e == Head(registry)
             rest == ImportLines(w, Tail(registry))
         IN  IF e.name = w["fnName"] \/ e.filename = w["filename"] THEN rest
             ELSE <<ImportLine(e.name, e.filename)>> \o rest

\* Array.prototype.join
RECURSIVE Join(_, _)
Join(lines, separator) ==
    IF lines = <<>> THEN ""
    ELSE IF Len(lines) = 1 THEN lines[1]
    ELSE lines[1] \o separator \o Join(Tail(lines), separator)

\* Lines 230-234: the text handed to the transpiler.
FunctionCode(w, importLines) ==
    Join(importLines, "\n") \o "\nexport default " \o FnSource(w["fn"])

\* The code esbuild.transform resolves with: an output written from the input
\* under the options of the call.
Esbuild(input, loader, minify) ==
    "/* esbuild " \o loader \o (IF minify THEN " minify" ELSE "") \o " */ " \o input

\* A variant of the catch handler that resolves with no code.
TransformFailedEmpty(functionCode) == ""

\* Lines 241-244: the catch handler resolves with the text it was handed.
TransformFailed(functionCode) == functionCode

\* No call of buildCode has been made.
NoCompile ==
    [pc |-> "idle", reg |-> Registration("", "f1", Undefined, Undefined),
     registry |-> <<>>, importLines |-> <<>>, functionCode |-> "",
     failed |-> FALSE, code |-> ""]

\* wrapper.register(targetSourceFileUrl), lines 203-211.
RegisterAlias(reg, targetSourceFileUrl) ==
    LET this == WrapperOf(reg)
    IN  /\ importsBySourceFileUrl' =
              ImportsSet(importsBySourceFileUrl, targetSourceFileUrl,
                         this["fnName"], this["filename"])
        /\ last' = Outcome("alias")
        /\ UNCHANGED <<cacheFile, fileMtime, cacheLoaded, cacheDirty,
                       cacheFlushScheduled, microtasks, cache, sourceFileMtimeMemo,
                       handlers, registered, compileVars, proxyVars,
                   buildVars>>

\* wrapper.buildCode() up to its await (lines 217-240): the text is composed
\* from the registry as it is now and handed to the transpiler.
BuildCodeCall(reg) ==
    LET this == WrapperOf(reg)
        created == WithRegistry(importsBySourceFileUrl, this["sourceFileUrl"])
        registry == created[RegistryKey(this["sourceFileUrl"])]
        importLines == ImportLines(this, registry)
    IN  /\ compile.pc # "transform"
        /\ importsBySourceFileUrl' = created
        /\ compile' = [pc |-> "transform", reg |-> reg, registry |-> registry,
                       importLines |-> importLines,
                       functionCode |-> FunctionCode(this, importLines),
                       failed |-> FALSE, code |-> ""]
        /\ last' = Outcome("buildCode")
        /\ UNCHANGED <<cacheFile, fileMtime, cacheLoaded, cacheDirty,
                       cacheFlushScheduled, microtasks, cache, sourceFileMtimeMemo,
                       handlers, registered, proxyVars,
                   buildVars>>

\* The transform resolves and buildCode returns its code (lines 235-246).
TransformResolves ==
    /\ compile.pc = "transform"
    /\ compile' = [compile EXCEPT !.pc = "returned",
                                  !.code = Esbuild(compile.functionCode, "ts", FALSE)]
    /\ last' = Outcome("built")
    /\ UNCHANGED <<cacheFile, fileMtime, cacheLoaded, cacheDirty,
                   cacheFlushScheduled, microtasks, cache, sourceFileMtimeMemo, handlers,
                   importsBySourceFileUrl, registered, proxyVars,
                   buildVars>>

\* The transform rejects; the catch handler supplies the code (lines 241-246).
TransformRejects ==
    /\ compile.pc = "transform"
    /\ compile' = [compile EXCEPT !.pc = "returned", !.failed = TRUE,
                                  !.code = TransformFailed(compile.functionCode)]
    /\ last' = Outcome("built")
    /\ UNCHANGED <<cacheFile, fileMtime, cacheLoaded, cacheDirty,
                   cacheFlushScheduled, microtasks, cache, sourceFileMtimeMemo, handlers,
                   importsBySourceFileUrl, registered, proxyVars,
                   buildVars>>

(***************************************************************************)
(* The handler proxy of the browser (client.ts lines 28-57; build.ts lines *)
(* 349-378 embed the same code in the bootstrap module).                   *)
(***************************************************************************)
\* The handler modules the page refers to: the ids of two registered handlers.
ModuleNames ==
    {ResolvedByHashing["ping", FnSource("f1")],
     ResolvedByHashing["pong", FnSource("f2")]}

\* `${basePath}/${callFunctionName}.js` with the default basePath.
ModulePath(callFunctionName) == "./" \o callFunctionName \o ".js"

\* The default export of the module at a path.
DefaultExport(path) == "default export of " \o path

\* Line 33: prop in target.
InTarget(prop) == prop \in DOMAIN target

\* Line 41: import(...) is called; the promise chain `scriptContent` of this
\* access is pending.
BeginLoad(callFunctionName) ==
    Append(loads, [name |-> callFunctionName,
                   path |-> ModulePath(callFunctionName),
                   state |-> "pending"])

\* `handlers.<prop>` is read and not called: an unloaded name begins a load
\* (lines 40-47) and the callable of lines 50-54 is kept.
Get(prop) ==
    /\ ~InTarget(prop)
    /\ Len(loads) < MaxLoads
    /\ loads' = BeginLoad(prop)
    /\ UNCHANGED <<target, calls>>
    /\ UNCHANGED <<modVars, fsVars, compileVars, buildVars, registered, last>>

\* `handlers.<prop>(this, event)`: the property is read and the callable
\* called at once.  A loaded name is called directly (lines 33-38); an
\* unloaded one begins a load and the call awaits it (lines 40-54).
Call(prop) ==
    /\ Len(calls) < MaxCalls
    /\ IF InTarget(prop)
       THEN /\ calls' = Append(calls, [name |-> prop, load |-> 0,
                                       state |-> "called", fn |-> target[prop]])
            /\ UNCHANGED loads
       ELSE /\ Len(loads) < MaxLoads
            /\ loads' = BeginLoad(prop)
            /\ calls' = Append(calls, [name |-> prop,
                                       load |-> Len(loads'),
                                       state |-> "awaiting", fn |-> Undefined])
    /\ UNCHANGED target
    /\ UNCHANGED <<modVars, fsVars, compileVars, buildVars, registered, last>>

\* A callable kept from an access of an unloaded name is called (lines
\* 50-51): the call awaits the promise chain of that access.
Invoke(k) ==
    /\ Len(calls) < MaxCalls
    /\ calls' = Append(calls, [name |-> loads[k].name, load |-> k,
                               state |-> "awaiting", fn |-> Undefined])
    /\ UNCHANGED <<target, loads>>
    /\ UNCHANGED <<modVars, fsVars, compileVars, buildVars, registered, last>>

\* A variant of the callback that returns the export and stores nothing.
TargetSetNothing(t, callFunctionName, scriptContent) == t

\* Line 44: target[callFunctionName] = scriptContent
TargetSet(t, callFunctionName, scriptContent) ==
    (callFunctionName :> scriptContent) @@ t

\* import() resolves and the callback of lines 42-46 stores the default
\* export in the target.
LoadResolves(k) ==
    /\ loads[k].state = "pending"
    /\ loads' = [loads EXCEPT ![k].state = "resolved"]
    /\ target' = TargetSet(target, loads[k].name, DefaultExport(loads[k].path))
    /\ UNCHANGED calls
    /\ UNCHANGED <<modVars, fsVars, compileVars, buildVars, registered, last>>

\* import() rejects: the callback does not run and the chain rejects.
LoadRejects(k) ==
    /\ loads[k].state = "pending"
    /\ loads' = [loads EXCEPT ![k].state = "rejected"]
    /\ UNCHANGED <<target, calls>>
    /\ UNCHANGED <<modVars, fsVars, compileVars, buildVars, registered, last>>

\* A variant of the callable that swallows the rejection of the chain and
\* resolves with nothing called.
AwaitedSwallowing(call, load) ==
    IF load.state = "resolved"
    THEN [call EXCEPT !.state = "called", !.fn = DefaultExport(load.path)]
    ELSE [call EXCEPT !.state = "called"]

\* Lines 51-52: `await scriptContent` in the callable: the function the
\* chain resolved with is called, or the callable rejects with the chain.
Awaited(call, load) ==
    IF load.state = "resolved"
    THEN [call EXCEPT !.state = "called", !.fn = DefaultExport(load.path)]
    ELSE [call EXCEPT !.state = "rejected"]

\* Lines 51-53: the await of a call ends.
CallResumes(c) ==
    /\ calls[c].state = "awaiting"
    /\ loads[calls[c].load].state # "pending"
    /\ calls' = [calls EXCEPT ![c] = Awaited(calls[c], loads[calls[c].load])]
    /\ UNCHANGED <<target, loads>>
    /\ UNCHANGED <<modVars, fsVars, compileVars, buildVars, registered, last>>

(***************************************************************************)
(* buildScriptFiles and transpileClientFile (build.ts lines 102-311).      *)
(* A directory is a function from entry names to entries.                  *)
(***************************************************************************)
\* A regular file of the output directory.
File(mtime, text) == [isFile |-> TRUE, mtime |-> mtime, text |-> text]

\* A subdirectory of the output directory.
Directory == [isFile |-> FALSE, mtime |-> 1, text |-> ""]

\* The mtime Deno.writeTextFile leaves on a file: later than every mtime the
\* directories start with.
WriteTime == 3

\* A variant of the write that replaces the directory by the file written.
WriteTextFileAlone(dir, name, text) == (name :> File(WriteTime, text))

\* Deno.writeTextFile(path, text)
WriteTextFile(dir, name, text) ==
    [n \in DOMAIN dir \cup {name} |->
        IF n = name THEN File(WriteTime, text) ELSE dir[n]]

\* Deno.remove(path)
Remove(dir, name) == [n \in DOMAIN dir \ {name} |-> dir[n]]

\* Line 150: the version field of the package's deno.json.
PackageVersion == "0.3.1"

\* Line 151: versionComment
VersionComment == "// @reece/client-functions v" \o PackageVersion

\* Lines 161-163: the text of client.ts.
ClientTs == "setupHandlers();"

\* Lines 154-155: existingCode?.startsWith(versionComment)
BootstrapUpToDate(dir) ==
    /\ "clientFunctions.js" \in DOMAIN dir
    /\ dir["clientFunctions.js"].isFile
    /\ StartsWith(dir["clientFunctions.js"].text, VersionComment)

\* Line 174: outputCode of the bootstrap module.
BootstrapCode(minify) == VersionComment \o "\n" \o Esbuild(ClientTs, "ts", minify)

\* A variant of the stat that never finds the file.
HandlerFileExistsNever(dir, filename) == FALSE

\* Lines 183-185: Deno.stat(`${publicDir}/${filename}.js`) succeeds.
HandlerFileExists(dir, filename) == (filename \o ".js") \in DOMAIN dir

\* Lines 124-127: the entries of clientDir that are .ts or .tsx files.
IsClientSource(entry) ==
    /\ entry.isFile
    /\ EndsWith(entry.name, ".ts") \/ EndsWith(entry.name, ".tsx")

\* Lines 121-130: the scan of clientDir; a directory that cannot be read
\* (Null) gives no files.
ScanClientDir(dir) ==
    IF dir = Null THEN <<>> ELSE SelectSeq(dir, IsClientSource)

\* Line 279: fileName.replace(/\.(ts|tsx)$/i, "")
OutBaseName(fileName) ==
    IF EndsWith(fileName, ".tsx") THEN SubSeq(fileName, 1, Len(fileName) - 4)
    ELSE IF EndsWith(fileName, ".ts") THEN SubSeq(fileName, 1, Len(fileName) - 3)
    ELSE fileName

\* A variant that uses the ts loader for every file.
LoaderOfTs(fileName) == "ts"

\* Line 299: the loader of a client file.
LoaderOf(fileName) == IF EndsWith(fileName, ".tsx") THEN "tsx" ELSE "ts"

\* Lines 282-296: the output of a client file exists and is not older than
\* its source.
ClientFileUnchanged(dir, entry) ==
    LET outName == OutBaseName(entry.name) \o ".js"
    IN  /\ entry.mtime # Null
        /\ outName \in DOMAIN dir
        /\ dir[outName].mtime >= entry.mtime[1]

\* Array.prototype.includes
Includes(array, value) == \E i \in 1..Len(array) : array[i] = value

\* A variant of the cleanup test that keeps every file.
RemovableNever(dir, name, files) == FALSE

\* Lines 214-216: cleanup removes this entry of the output directory.
Removable(dir, name, files) ==
    /\ dir[name].isFile
    /\ EndsWith(name, ".js")
    /\ ~Includes(files, SplitDotFirst(name))

\* No build has been started.
NoBuild ==
    [n |-> 0, pc |-> "idle", cleanup |-> FALSE, minify |-> FALSE,
     handlers |-> <<>>, files |-> <<>>, removed |-> {}]

\* No build has completed before the current one.
NoPrev ==
    [valid |-> FALSE, cleanup |-> FALSE, minify |-> FALSE, handlers |-> <<>>,
     files |-> <<>>, names |-> {}]

\* A task of step 3 at its first await.
Task(kind, name, wrapper, entry) ==
    [kind |-> kind, name |-> name, wrapper |-> wrapper, entry |-> entry,
     pc |-> "start", result |-> "", code |-> "", transpiled |-> FALSE,
     wrote |-> FALSE]

\* An entry of clientDir.
Entry(name, isFile, mtime) == [name |-> name, isFile |-> isFile, mtime |-> mtime]

\* Lines 139-205: the tasks handed to Promise.all, in order: the bootstrap
\* module, the handlers in insertion order, the client files in scan order.
Tasks(handlerMap, clientFiles) ==
    <<Task("bootstrap", "clientFunctions", EmptyMap, Entry("", FALSE, Null))>>
    \o [i \in 1..Len(handlerMap) |->
          Task("handler", handlerMap[i].wrapper["filename"],
               handlerMap[i].wrapper, Entry("", FALSE, Null))]
    \o [i \in 1..Len(clientFiles) |->
          Task("client", clientFiles[i].name, EmptyMap, clientFiles[i])]

\* Every task of the latest build has resolved or rejected.
TasksSettled == \A i \in 1..Len(tasks) : tasks[i].pc \in {"done", "failed"}

\* A variant that goes on to cleanup when a task rejects.
TaskFailedThenCleanup(b) ==
    IF b.pc = "tasks" THEN [b EXCEPT !.pc = "cleanup"] ELSE b

\* Line 139: Promise.all rejects with the first task that rejects, and the
\* build with it.
TaskFailed(b) == IF b.pc = "tasks" THEN [b EXCEPT !.pc = "failed"] ELSE b

\* No build is running: none was started, or the latest has returned or
\* thrown and its tasks have settled.
BuildIdle == build.pc \in {"idle", "done", "failed"} /\ TasksSettled

\* buildScriptFiles({cleanup, minify}) up to Promise.all (lines 102-205):
\* the output directory exists, clientDir is scanned and every task runs to
\* its first await.
BuildStart(cleanup, minify) ==
    /\ BuildIdle
    /\ build.n < MaxBuilds
    /\ build' = [n |-> build.n + 1, pc |-> "tasks", cleanup |-> cleanup,
                 minify |-> minify, handlers |-> handlers, files |-> <<>>,
                 removed |-> {}]
    /\ tasks' = Tasks(handlers, ScanClientDir(clientDir))
    /\ prev' = IF build.pc = "done"
               THEN [valid |-> TRUE, cleanup |-> build.cleanup,
                     minify |-> build.minify, handlers |-> build.handlers,
                     files |-> build.files, names |-> DOMAIN publicDir]
               ELSE [NoPrev EXCEPT !.names = DOMAIN publicDir]
    /\ UNCHANGED <<publicDir, clientDir>>
    /\ UNCHANGED <<modVars, fsVars, compileVars, proxyVars, registered, last>>

\* Lines 147-163 of the bootstrap task: the existing file is read; with the
\* current version comment the task returns, otherwise the transpiler is
\* called on client.ts.
BootstrapCheck(i) ==
    /\ tasks[i].kind = "bootstrap"
    /\ tasks[i].pc = "start"
    /\ tasks' = [tasks EXCEPT ![i] =
          IF BootstrapUpToDate(publicDir)
          THEN [@ EXCEPT !.pc = "done", !.result = "clientFunctions"]
          ELSE [@ EXCEPT !.pc = "transform", !.code = ClientTs,
                         !.transpiled = TRUE]]
    /\ UNCHANGED <<publicDir, clientDir, build, prev>>
    /\ UNCHANGED <<modVars, fsVars, compileVars, proxyVars, registered, last>>

\* Lines 165-177: the transform resolves and the file is written.
BootstrapWritten(i) ==
    /\ tasks[i].kind = "bootstrap"
    /\ tasks[i].pc = "transform"
    /\ publicDir' = WriteTextFile(publicDir, "clientFunctions.js",
                                  BootstrapCode(build.minify))
    /\ tasks' = [tasks EXCEPT ![i] =
          [@ EXCEPT !.pc = "done", !.result = "clientFunctions", !.wrote = TRUE]]
    /\ UNCHANGED <<clientDir, build, prev>>
    /\ UNCHANGED <<modVars, fsVars, compileVars, proxyVars, registered, last>>

\* Lines 183-193 of a handler task: the stat settles; the task returns if the
\* file exists, otherwise buildCode composes the text and calls the
\* transpiler.
HandlerStat(i) ==
    LET this == tasks[i].wrapper
        created == WithRegistry(importsBySourceFileUrl, this["sourceFileUrl"])
        registry == created[RegistryKey(this["sourceFileUrl"])]
    IN  /\ tasks[i].kind = "handler"
        /\ tasks[i].pc = "start"
        /\ IF HandlerFileExists(publicDir, tasks[i].name)
           THEN /\ tasks' = [tasks EXCEPT ![i] =
                      [@ EXCEPT !.pc = "done", !.result = tasks[i].name]]
                /\ UNCHANGED importsBySourceFileUrl
           ELSE /\ tasks' = [tasks EXCEPT ![i] =
                      [@ EXCEPT !.pc = "transform", !.transpiled = TRUE,
                                !.code = FunctionCode(this,
                                            ImportLines(this, registry))]]
                /\ importsBySourceFileUrl' = created
        /\ UNCHANGED <<publicDir, clientDir, build, prev>>
        /\ UNCHANGED <<cacheFile, fileMtime, cacheLoaded, cacheDirty,
                       cacheFlushScheduled, microtasks, cache, sourceFileMtimeMemo,
                       handlers, compileVars, proxyVars, registered, last>>

\* Lines 193-200 and mod.ts lines 235-246: the transform settles, buildCode
\* returns its code or the untransformed text, and the file is written.
HandlerWritten(i, transformed) ==
    /\ tasks[i].kind = "handler"
    /\ tasks[i].pc = "transform"
    /\ publicDir' = WriteTextFile(publicDir, tasks[i].name \o ".js",
                        IF transformed THEN Esbuild(tasks[i].code, "ts", FALSE)
                        ELSE TransformFailed(tasks[i].code))
    /\ tasks' = [tasks EXCEPT ![i] =
          [@ EXCEPT !.pc = "done", !.result = tasks[i].name, !.wrote = TRUE]]
    /\ UNCHANGED <<clientDir, build, prev>>
    /\ UNCHANGED <<modVars, fsVars, compileVars, proxyVars, registered, last>>

\* transpileClientFile up to its transform (lines 278-306): the stats
\* settle; the task returns if the output is not older than the source,
\* otherwise the source is read and the transpiler called.
ClientStat(i) ==
    /\ tasks[i].kind = "client"
    /\ tasks[i].pc = "start"
    /\ tasks' = [tasks EXCEPT ![i] =
          IF ClientFileUnchanged(publicDir, tasks[i].entry)
          THEN [@ EXCEPT !.pc = "done", !.result = OutBaseName(tasks[i].name)]
          ELSE [@ EXCEPT !.pc = "transform", !.transpiled = TRUE,
                         !.code = "/* " \o tasks[i].name \o " */"]]
    /\ UNCHANGED <<publicDir, clientDir, build, prev>>
    /\ UNCHANGED <<modVars, fsVars, compileVars, proxyVars, registered, last>>

\* Lines 300-310: the transform resolves and the output is written.
ClientWritten(i) ==
    /\ tasks[i].kind = "client"
    /\ tasks[i].pc = "transform"
    /\ publicDir' = WriteTextFile(publicDir, OutBaseName(tasks[i].name) \o ".js",
                        Esbuild(tasks[i].code, LoaderOf(tasks[i].name),
                                build.minify))
    /\ tasks' = [tasks EXCEPT ![i] =
          [@ EXCEPT !.pc = "done", !.result = OutBaseName(tasks[i].name),
                    !.wrote = TRUE]]
    /\ UNCHANGED <<clientDir, build, prev>>
    /\ UNCHANGED <<modVars, fsVars, compileVars, proxyVars, registered, last>>

\* The transform of the bootstrap task or of a client file rejects (lines
\* 165, 300): nothing catches it, the task rejects and so does Promise.all.
TransformThrows(i) ==
    /\ tasks[i].kind \in {"bootstrap", "client"}
    /\ tasks[i].pc = "transform"
    /\ tasks' = [tasks EXCEPT ![i].pc = "failed"]
    /\ build' = TaskFailed(build)
    /\ UNCHANGED <<publicDir, clientDir, prev>>
    /\ UNCHANGED <<modVars, fsVars, compileVars, proxyVars, registered, last>>

\* Promise.all resolves with the results in task order (lines 139-205);
\* without cleanup the build returns them (lines 212, 247-255).
TasksComplete ==
    /\ build.pc = "tasks"
    /\ \A i \in 1..Len(tasks) : tasks[i].pc = "done"
    /\ build' = [build EXCEPT
          !.files = [i \in 1..Len(tasks) |-> tasks[i].result],
          !.pc = IF build.cleanup THEN "cleanup" ELSE "done"]
    /\ UNCHANGED <<publicDir, clientDir, tasks, prev>>
    /\ UNCHANGED <<modVars, fsVars, compileVars, proxyVars, registered, last>>

\* Lines 213-219: the cleanup loop removes an entry.
CleanupRemove(name) ==
    /\ build.pc = "cleanup"
    /\ name \in DOMAIN publicDir
    /\ Removable(publicDir, name, build.files)
    /\ publicDir' = Remove(publicDir, name)
    /\ build' = [build EXCEPT !.removed = @ \cup {name}]
    /\ UNCHANGED <<clientDir, tasks, prev>>
    /\ UNCHANGED <<modVars, fsVars, compileVars, proxyVars, registered, last>>

\* Lines 221-255: the loop has passed every entry and the build returns.
CleanupEnds ==
    /\ build.pc = "cleanup"
    /\ \A name \in DOMAIN publicDir : ~Removable(publicDir, name, build.files)
    /\ build' = [build EXCEPT !.pc = "done"]
    /\ UNCHANGED <<publicDir, clientDir, tasks, prev>>
    /\ UNCHANGED <<modVars, fsVars, compileVars, proxyVars, registered, last>>

(***************************************************************************)
(* The registry and its cache: a process from its start (mod.ts lines      *)
(* 36-43, 79, 102, 107), over any cache file and source-file mtimes.       *)
(***************************************************************************)
Init ==
    /\ cacheFile \in InitialDocs
    /\ fileMtime \in InitialMtimes
    /\ cacheLoaded = FALSE
    /\ cacheDirty = FALSE
    /\ cacheFlushScheduled = FALSE
    /\ microtasks = 0
    /\ cache = EmptyCache
    /\ sourceFileMtimeMemo = EmptyMap
    /\ handlers = <<>>
    /\ importsBySourceFileUrl = EmptyMap
    /\ compile = NoCompile
    /\ target = EmptyMap
    /\ loads = <<>>
    /\ calls = <<>>
    /\ publicDir = EmptyMap
    /\ clientDir = Null
    /\ build = NoBuild
    /\ tasks = <<>>
    /\ prev = NoPrev
    /\ registered = {}
    /\ last = Outcome("init")

Next ==
    \/ \E fnName \in RegistryNames, fn \in Fns, sourceFileUrl \in LocatorArgs :
          /\ WithinRegs(MaxRegs, fnName, fn, sourceFileUrl)
          /\ Register(fnName, fn, sourceFileUrl)
    \/ \E fn \in NonFns, sourceFileUrl \in {Undefined, "file:///a.ts"} :
          Register("ping", fn, sourceFileUrl)
    \/ FlushMicrotask

Spec == Init /\ [][Next]_vars

\* The event loop runs a queued microtask: the flush is not postponed for
\* ever.
SpecFair == Spec /\ WF_vars(FlushMicrotask)

(***************************************************************************)
(* Loading the cache file: a process that starts with any content in the   *)
(* cache file, both source files readable, and registers ping.             *)
(***************************************************************************)
\* Every kind of content loadCacheOnce can meet (lines 48-61).
AnyDocs ==
    {MissingDoc, GarbageDoc, WrongVersionDoc, NoFilesDoc, ShapelessDoc,
     Stringify(PreviousRunCache)}

InitLoad ==
    /\ cacheFile \in AnyDocs
    /\ fileMtime = ("file:///a.ts" :> Some(2)) @@ ("file:///b.ts" :> Some(1))
    /\ cacheLoaded = FALSE
    /\ cacheDirty = FALSE
    /\ cacheFlushScheduled = FALSE
    /\ microtasks = 0
    /\ cache = EmptyCache
    /\ sourceFileMtimeMemo = EmptyMap
    /\ handlers = <<>>
    /\ importsBySourceFileUrl = EmptyMap
    /\ compile = NoCompile
    /\ target = EmptyMap
    /\ loads = <<>>
    /\ calls = <<>>
    /\ publicDir = EmptyMap
    /\ clientDir = Null
    /\ build = NoBuild
    /\ tasks = <<>>
    /\ prev = NoPrev
    /\ registered = {}
    /\ last = Outcome("init")

NextLoad ==
    \/ \E fn \in Fns, sourceFileUrl \in LocatorArgs :
          /\ WithinRegs(MaxRegs, "ping", fn, sourceFileUrl)
          /\ Register("ping", fn, sourceFileUrl)
    \/ FlushMicrotask

SpecLoad == InitLoad /\ [][NextLoad]_vars

(***************************************************************************)
(* Wrappers, aliases and buildCode: a process that registers functions     *)
(* with no locator or in a.ts, aliases them into other files and builds    *)
(* their code.  The mtimes of its source files cannot be read, so that the *)
(* naming cache stays out of use (lines 84-92, 149).                       *)
(***************************************************************************)
\* The calls of the constructor the compiling process makes.
CompileInputs ==
    {<<"ping", "f1", Undefined>>, <<"pong", "f2", Undefined>>,
     <<"filename", "f1", Undefined>>, <<"ping", "f2", Undefined>>,
     <<"pong", "f2", "file:///a.ts">>}

\* The files it aliases wrappers into.
AliasTargets == {"file:///a.ts"}

InitCompile ==
    /\ cacheFile = MissingDoc
    /\ fileMtime = [sourceFileUrl \in Locators |-> Null]
    /\ cacheLoaded = FALSE
    /\ cacheDirty = FALSE
    /\ cacheFlushScheduled = FALSE
    /\ microtasks = 0
    /\ cache = EmptyCache
    /\ sourceFileMtimeMemo = EmptyMap
    /\ handlers = <<>>
    /\ importsBySourceFileUrl = EmptyMap
    /\ compile = NoCompile
    /\ target = EmptyMap
    /\ loads = <<>>
    /\ calls = <<>>
    /\ publicDir = EmptyMap
    /\ clientDir = Null
    /\ build = NoBuild
    /\ tasks = <<>>
    /\ prev = NoPrev
    /\ registered = {}
    /\ last = Outcome("init")

NextCompile ==
    \/ \E input \in CompileInputs :
          /\ WithinRegs(MaxRegs, input[1], input[2], input[3])
          /\ Register(input[1], input[2], input[3])
    \/ \E reg \in registered, targetSourceFileUrl \in AliasTargets :
          RegisterAlias(reg, targetSourceFileUrl)
    \/ \E reg \in registered : BuildCodeCall(reg)
    \/ TransformResolves
    \/ TransformRejects

SpecCompile == InitCompile /\ [][NextCompile]_vars

(***************************************************************************)
(* The handler proxy in a page: handler attributes fire, callables are     *)
(* kept and called, and the imports settle in any order.                   *)
(***************************************************************************)
InitProxy ==
    /\ Init
    /\ cacheFile = MissingDoc
    /\ fileMtime["file:///b.ts"] = Null

NextProxy ==
    \/ \E prop \in ModuleNames : Get(prop)
    \/ \E prop \in ModuleNames : Call(prop)
    \/ \E k \in 1..Len(loads) : Invoke(k)
    \/ \E k \in 1..Len(loads) : LoadResolves(k)
    \/ \E k \in 1..Len(loads) : LoadRejects(k)
    \/ \E c \in 1..Len(calls) : CallResumes(c)

SpecProxy == InitProxy /\ [][NextProxy]_vars

(***************************************************************************)
(* The build: a process registers handlers with no locator and runs        *)
(* buildScriptFiles, one build after another, over an output directory     *)
(* that is empty or holds the outputs of earlier builds.  It registers     *)
(* before and between its builds.                                          *)
(***************************************************************************)
\* The calls of the constructor the building process makes.
BuildInputs == {<<"ping", "f1", Undefined>>, <<"filename", "f1", Undefined>>}

\* The output directory an earlier build left: a bootstrap module of an
\* older version, the module of ping, the module of a handler that is no
\* longer registered, an app.js older than app.ts, and entries no build
\* wrote.
EarlierOutputs ==
    ("clientFunctions.js" :> File(1, "// @reece/client-functions v0.3.0\n"))
    @@ ((ResolvedByHashing["ping", FnSource("f1")] \o ".js")
            :> File(1, "\nexport default function(){return 1}"))
    @@ ((ResolvedByHashing["pong", FnSource("f2")] \o ".js")
            :> File(1, "\nexport default function(e){}"))
    @@ ("app.js" :> File(1, ""))
    @@ ("style.css" :> File(1, ""))
    @@ ("vendor.js" :> Directory)

\* The output directories a build may find.
InitialPublicDirs == {EmptyMap, EarlierOutputs}

\* The client directories a build may find: none, or one with a source
\* file, a file that is no source and a subdirectory.
InitialClientDirs ==
    {Null,
     <<Entry("app.ts", TRUE, Some(2)), Entry("notes.md", TRUE, Some(1)),
       Entry("lib.ts", FALSE, Some(1))>>}

InitBuild ==
    /\ cacheFile = MissingDoc
    /\ fileMtime = [sourceFileUrl \in Locators |-> Null]
    /\ cacheLoaded = FALSE
    /\ cacheDirty = FALSE
    /\ cacheFlushScheduled = FALSE
    /\ microtasks = 0
    /\ cache = EmptyCache
    /\ sourceFileMtimeMemo = EmptyMap
    /\ handlers = <<>>
    /\ importsBySourceFileUrl = EmptyMap
    /\ compile = NoCompile
    /\ target = EmptyMap
    /\ loads = <<>>
    /\ calls = <<>>
    /\ publicDir \in InitialPublicDirs
    /\ clientDir \in InitialClientDirs
    /\ build = NoBuild
    /\ tasks = <<>>
    /\ prev = NoPrev
    /\ registered = {}
    /\ last = Outcome("init")

NextBuild ==
    \/ \E input \in BuildInputs :
          /\ BuildIdle
          /\ WithinRegs(MaxRegs, input[1], input[2], input[3])
          /\ Register(input[1], input[2], input[3])
    \/ \E cleanup \in BOOLEAN, minify \in BOOLEAN : BuildStart(cleanup, minify)
    \/ \E i \in 1..Len(tasks) : BootstrapCheck(i)
    \/ \E i \in 1..Len(tasks) : BootstrapWritten(i)
    \/ \E i \in 1..Len(tasks) : HandlerStat(i)
    \/ \E i \in 1..Len(tasks), transformed \in BOOLEAN :
          HandlerWritten(i, transformed)
    \/ \E i \in 1..Len(tasks) : ClientStat(i)
    \/ \E i \in 1..Len(tasks) : ClientWritten(i)
    \/ \E i \in 1..Len(tasks) : TransformThrows(i)
    \/ TasksComplete
    \/ \E name \in DOMAIN publicDir : CleanupRemove(name)
    \/ CleanupEnds

SpecBuild == InitBuild /\ [][NextBuild]_vars

(***************************************************************************)
(* Builds over file names that meet: a process with no handler registered  *)
(* builds a client directory whose sources are clientFunctions.ts, with no *)
(* readable mtime, and app.min.tsx, into an output directory that is empty *)
(* or was left by a later version of the package.                          *)
(***************************************************************************)
\* A client directory with a source named as the bootstrap module and a
\* source with a dot in its base name.
MeetingClientDir ==
    <<Entry("clientFunctions.ts", TRUE, Null),
      Entry("app.min.tsx", TRUE, Some(2))>>

\* The output directory a build of version 0.3.10 of the package left: its
\* bootstrap module and an app.min.js older than app.min.tsx.
LaterVersionOutputs ==
    ("clientFunctions.js" :> File(1, "// @reece/client-functions v0.3.10\n"))
    @@ ("app.min.js" :> File(1, ""))

InitNames ==
    /\ cacheFile = MissingDoc
    /\ fileMtime = [sourceFileUrl \in Locators |-> Null]
    /\ cacheLoaded = FALSE
    /\ cacheDirty = FALSE
    /\ cacheFlushScheduled = FALSE
    /\ microtasks = 0
    /\ cache = EmptyCache
    /\ sourceFileMtimeMemo = EmptyMap
    /\ handlers = <<>>
    /\ importsBySourceFileUrl = EmptyMap
    /\ compile = NoCompile
    /\ target = EmptyMap
    /\ loads = <<>>
    /\ calls = <<>>
    /\ publicDir \in {EmptyMap, LaterVersionOutputs}
    /\ clientDir = MeetingClientDir
    /\ build = NoBuild
    /\ tasks = <<>>
    /\ prev = NoPrev
    /\ registered = {}
    /\ last = Outcome("init")

NextNames ==
    \/ \E cleanup \in BOOLEAN, minify \in BOOLEAN : BuildStart(cleanup, minify)
    \/ \E i \in 1..Len(tasks) : BootstrapCheck(i)
    \/ \E i \in 1..Len(tasks) : BootstrapWritten(i)
    \/ \E i \in 1..Len(tasks) : ClientStat(i)
    \/ \E i \in 1..Len(tasks) : ClientWritten(i)
    \/ \E i \in 1..Len(tasks) : TransformThrows(i)
    \/ TasksComplete
    \/ \E name \in DOMAIN publicDir : CleanupRemove(name)
    \/ CleanupEnds

SpecNames == InitNames /\ [][NextNames]_vars

(***************************************************************************)
(* Properties of the registry and its cache.                               *)
(***************************************************************************)
\* The mtime the constructor sees for a locator: the memo, else the file's.
SeenMtime(sourceFileUrl) ==
    IF sourceFileUrl \in DOMAIN sourceFileMtimeMemo
    THEN sourceFileMtimeMemo[sourceFileUrl]
    ELSE fileMtime[sourceFileUrl]

\* The locator names a file whose mtime the constructor can read.
Readable(sourceFileUrl) ==
    sourceFileUrl \in Locators /\ SeenMtime(sourceFileUrl) # Null

\* The in-memory cache as the next constructor call finds it.
CacheAsLoaded == LoadCacheOnce(cacheLoaded, cache, cacheFile)

\* C1: after every successful registration the wrapper returned has a property
\* named fnName whose value is "handlers.<id>(this, event)", <id> being the
\* wrapper's filename field, which is also the id in the import registry of
\* the defining file.
C1_InvocationStringNamesFilenameField ==
    last.op = "register" =>
        LET w == last.wrapper
            registry == importsBySourceFileUrl[RegistryKey(last.sourceFileUrl)]
        IN  /\ last.fnName \in DOMAIN w
            /\ w[last.fnName] = "handlers." \o w["filename"] \o "(this, event)"
            /\ \E i \in 1..Len(registry) :
                  /\ registry[i].name = last.fnName
                  /\ w[last.fnName] =
                        "handlers." \o registry[i].filename \o "(this, event)"

\* C2: a registration that repeats the name, the source text and the locator
\* of an earlier registration of the process, the locator's mtime being
\* readable, gets the id of the earlier one and does not run the hash.
C2_RepeatedRegistrationIsCacheHit ==
    [][last'.op = "register" =>
        \A r \in registered :
            ( /\ r.fnName = last'.fnName
              /\ r.source = FnSource(last'.fn)
              /\ r.sourceFileUrl = last'.sourceFileUrl
              /\ Readable(r.sourceFileUrl) )
            => /\ ~last'.hashed
               /\ last'.resolvedFilename = r.resolvedFilename]_vars

\* A repeated registration was served from the cache, the cache file having
\* been absent when the process started.
C2_Witness ==
    /\ last.op = "register"
    /\ last.again
    /\ last.cacheRead
    /\ ~last.hashed
    /\ cacheFile = MissingDoc

\* C3: when a registration finds the file's entry recorded at another mtime
\* than the file has now, every id of that entry is discarded before the
\* lookup (the registration is hashed, and afterwards the entry holds the new
\* mtime and no id but the one just computed), and the entries of the other
\* files are as they were; a name with no id in the file's entry is hashed.
C3_StaleEntryIsDiscardedWhole ==
    [][last'.op = "register" /\ Readable(last'.sourceFileUrl) =>
        LET u == last'.sourceFileUrl
            now == SeenMtime(u)[1]
            before == CacheAsLoaded
        IN  /\ (u \in DOMAIN before.files /\ before.files[u].mtimeMs # now) =>
                  /\ last'.hashed
                  /\ cache'.files[u].mtimeMs = now
                  /\ cache'.files[u].handlers =
                        (last'.fnName :> last'.resolvedFilename)
                  /\ \A v \in DOMAIN before.files \ {u} :
                        /\ v \in DOMAIN cache'.files
                        /\ cache'.files[v] = before.files[v]
            /\ (u \in DOMAIN cache.files /\ cacheLoaded
                /\ last'.fnName \notin DOMAIN cache.files[u].handlers) =>
                  last'.hashed]_vars

\* A registration discarded two ids cached for a.ts and left b.ts's entry.
C3_Witness ==
    /\ last.op = "register"
    /\ last.sourceFileUrl = "file:///a.ts"
    /\ Cardinality(last.dropped) >= 2
    /\ last.hashed
    /\ "file:///b.ts" \in DOMAIN cache.files
    /\ cache.files["file:///b.ts"].handlers # EmptyMap

\* C9: a constructor call whose second argument is not a function throws, and
\* leaves the handler map, the import registries, the in-memory cache and the
\* dirty and flush-scheduled flags as they were.
C9_NonFunctionIsRejectedWithoutEffect ==
    [][last'.op \in {"register", "throw"} =>
        /\ (last'.op = "throw") = (TypeOf(last'.fn) # "function")
        /\ last'.op = "throw" =>
              UNCHANGED <<handlers, importsBySourceFileUrl, cache, cacheDirty,
                          cacheFlushScheduled>>]_vars

\* A call was rejected in a process that starts on a cache file with entries.
C9_Witness ==
    /\ last.op = "throw"
    /\ cacheFile = Stringify(PreviousRunCache)
    /\ ~cacheLoaded

\* C10: a registration with no locator, or with a locator whose mtime cannot
\* be read, computes `<name>_<hex>` by hashing and does not use the cache: it
\* reads no entry, the cache is the loaded one, and the dirty and
\* flush-scheduled flags are as they were.
C10_NoLocatorNoCaching ==
    [][(last'.op = "register" /\ ~Readable(last'.sourceFileUrl)) =>
        /\ last'.hashed
        /\ last'.resolvedFilename =
              ResolvedByHashing[last'.fnName, FnSource(last'.fn)]
        /\ ~last'.cacheRead
        /\ cache' = CacheAsLoaded
        /\ UNCHANGED <<cacheDirty, cacheFlushScheduled>>]_vars

\* A registration under the unreadable b.ts was repeated and hashed again,
\* while the cache holds an entry for b.ts.
C10_Witness ==
    /\ last.op = "register"
    /\ last.sourceFileUrl = "file:///b.ts"
    /\ fileMtime["file:///b.ts"] = Null
    /\ last.again
    /\ last.hashed
    /\ "file:///b.ts" \in DOMAIN cache.files

\* C12: the cache mutations of a burst of registrations are written at most
\* once, after the burst: at most one flush microtask is queued at a time, a
\* registration that changes the cache leaves it dirty with the microtask
\* queued and writes nothing itself, and the file changes only when the
\* microtask runs, which writes the whole cache in one write.
C12_FlushCoalescing ==
    [][/\ microtasks' <= 1
       /\ last'.op = "register" =>
             /\ cacheFile' = cacheFile
             /\ cache' # CacheAsLoaded => (cacheDirty' /\ microtasks' = 1)
       /\ cacheFile' # cacheFile =>
             /\ last'.op = "flush-written"
             /\ microtasks = 1
             /\ microtasks' = 0
             /\ cache' = cache
             /\ cacheFile' = Stringify(cache)
             /\ ~cacheDirty']_vars

\* Two registrations of one burst have put ids for two files in the cache;
\* one microtask is queued and nothing has been written yet.
C12_Witness ==
    /\ last.op = "register"
    /\ Cardinality(registered) = 2
    /\ Cardinality(DOMAIN cache.files) = 2
    /\ \A u \in DOMAIN cache.files : cache.files[u].handlers # EmptyMap
    /\ cacheFile = MissingDoc
    /\ cacheDirty
    /\ microtasks = 1

\* What loadCacheOnce recognizes as a version-1 cache (lines 51-56).
Recognized(doc) == doc.kind = "json" /\ doc.version = 1 /\ doc.filesIsObject

\* C13: whatever the cache file contains, no registration of a function
\* fails, and while the file holds content that is not a recognized version-1
\* cache the in-memory cache holds only what this process has registered.
C13_CacheFileNeverFatal ==
    /\ last.op # "typeerror"
    /\ (cacheLoaded /\ ~Recognized(cacheFile)) =>
          \A u \in DOMAIN cache.files :
             /\ HasHandlers(cache.files[u])
             /\ \A n \in DOMAIN cache.files[u].handlers :
                   \E r \in registered :
                      /\ r.sourceFileUrl = u
                      /\ r.fnName = n
                      /\ r.resolvedFilename = cache.files[u].handlers[n]

\* C17: handler records only accumulate: the wrapper of every registration
\* that has succeeded is in the handler map.
C17_HandlersOnlyAccumulate ==
    \A reg \in registered :
        \E i \in 1..Len(handlers) : handlers[i].wrapper = WrapperOf(reg)

\* C19: the id of every registration is the name, an underscore and the
\* hexadecimal absolute value of the 32-bit hash of the source text of the
\* function registered, whether or not the cache was consulted.
C19_IdFollowsContent ==
    last.op = "register" =>
        last.resolvedFilename = HashedFilename(last.fnName, FnSource(last.fn))

\* C26: a registration that mutates the cache leaves it dirty with a flush
\* pending, and a pending flush runs and attempts the write; a flush is
\* never pending while the cache is clean; a successful write leaves the file
\* equal to the whole in-memory cache and the cache clean; a failed write
\* leaves the file as it was, the cache dirty and no flush pending, and a
\* mutation after it makes a flush pending again.
C26_FlushFollowsMutation ==
    /\ [][/\ (last'.op = "register" /\ cache' # CacheAsLoaded) =>
                /\ cacheDirty'
                /\ cacheFlushScheduled'
                /\ microtasks' = 1
          /\ (cacheFlushScheduled' \/ microtasks' > 0) => cacheDirty'
          /\ microtasks' < microtasks =>
                /\ last'.op \in {"flush-written", "flush-failed"}
                /\ cache' = cache
                /\ ~cacheFlushScheduled'
                /\ microtasks' = 0
                /\ last'.op = "flush-written" =>
                      /\ cacheFile' = Stringify(cache)
                      /\ ~cacheDirty'
                /\ last'.op = "flush-failed" =>
                      /\ cacheFile' = cacheFile
                      /\ cacheDirty']_vars
    /\ (microtasks > 0) ~> (microtasks = 0)

\* The write of a cache holding one registration has failed: the file is
\* still missing, the cache is dirty and no flush is pending.
C26_Witness ==
    /\ last.op = "flush-failed"
    /\ Cardinality(registered) = 1
    /\ cache.files # EmptyMap
    /\ cacheFile = MissingDoc
    /\ cacheDirty
    /\ ~cacheFlushScheduled
    /\ microtasks = 0






(***************************************************************************)
(* Properties of buildCode.                                                *)
(***************************************************************************)
\* The entries of the registry buildCode read that are not the wrapper's own:
\* those under another name and another id.
OtherEntries ==
    {i \in 1..Len(compile.registry) :
        /\ compile.registry[i].name # compile.reg.fnName
        /\ compile.registry[i].filename # compile.reg.resolvedFilename}

\* C7: the import lines of a buildCode call are exactly one statement
\* `import { default as <otherName> } from "./<otherResolvedId>.js";` for
\* every entry of the registry of the wrapper's defining file other than the
\* wrapper's own, <otherResolvedId> being the id resolved for a wrapper of
\* that name, and none of them imports the wrapper itself.
C7_OneImportPerOtherEntry ==
    compile.pc # "idle" =>
        LET lines == compile.importLines
        IN  /\ Len(lines) = Cardinality(OtherEntries)
            /\ \A i \in OtherEntries :
                  \E r \in registered :
                     /\ r.fnName = compile.registry[i].name
                     /\ Cardinality({k \in 1..Len(lines) :
                            lines[k] = "import { default as " \o r.fnName
                                        \o " } from \"./" \o r.resolvedFilename
                                        \o ".js\";"}) = 1
            /\ \A k \in 1..Len(lines) :
                  lines[k] # "import { default as " \o compile.reg.fnName
                              \o " } from \"./" \o compile.reg.resolvedFilename
                              \o ".js\";"

\* C8: when the transform of a buildCode call rejects, the call returns, and
\* its code is the text handed to the transpiler: the import lines joined by
\* newlines, a newline, and `export default ` before the function's source.
C8_TranspilerFailureReturnsCompositeSource ==
    compile.failed =>
        /\ compile.pc = "returned"
        /\ compile.code = compile.functionCode
        /\ compile.code = Join(compile.importLines, "\n") \o "\nexport default "
                              \o compile.reg.source

\* A call that composed an import of a sibling returned after its transform
\* had rejected.
C8_Witness ==
    /\ compile.pc = "returned"
    /\ compile.failed
    /\ Len(compile.importLines) >= 1
    /\ compile.code # ""

\* The registry of a key maps the name to the filename.
RegistryHas(imports, key, name, filename) ==
    /\ key \in DOMAIN imports
    /\ \E i \in 1..Len(imports[key]) :
          imports[key][i].name = name /\ imports[key][i].filename = filename

\* C18: wrapper.register(otherLocator) adds name -> resolved id of the
\* wrapper to the registry of otherLocator, a second call with the same
\* locator changes no registry, and the handler map, the cache and the
\* registry of the wrapper's defining file stay as they were.
C18_AliasAddsMapping ==
    [][\A reg \in registered, targetSourceFileUrl \in AliasTargets :
          RegisterAlias(reg, targetSourceFileUrl) =>
             /\ RegistryHas(importsBySourceFileUrl', targetSourceFileUrl,
                            reg.fnName, reg.resolvedFilename)
             /\ ImportsSet(importsBySourceFileUrl', targetSourceFileUrl,
                           WrapperOf(reg)["fnName"], WrapperOf(reg)["filename"])
                   = importsBySourceFileUrl'
             /\ handlers' = handlers
             /\ cache' = cache /\ cacheFile' = cacheFile /\ cacheDirty' = cacheDirty
             /\ importsBySourceFileUrl'[RegistryKey(reg.sourceFileUrl)]
                   = importsBySourceFileUrl[RegistryKey(reg.sourceFileUrl)]]_vars

(***************************************************************************)
(* Properties of the handler proxy.                                        *)
(***************************************************************************)
\* The calls of a name that await a load which has not settled.
AwaitingInFlight(name) ==
    {c \in 1..Len(calls) :
        /\ calls[c].name = name
        /\ calls[c].state = "awaiting"
        /\ loads[calls[c].load].state = "pending"}

\* C4: for a name that is not loaded, the invocations made before the load
\* resolves cause one module load and receive its result: the invocations of
\* the name that wait for a load in flight all wait for the same one.
C4_DispatcherSingleFlight ==
    \A name \in ModuleNames :
        \A c, d \in AwaitingInFlight(name) : calls[c].load = calls[d].load

\* A load of the name has resolved.
LoadHasResolved(name) ==
    \E k \in 1..Len(loads) : loads[k].name = name /\ loads[k].state = "resolved"

\* C11: once a load of a name has resolved, the name is cached and stays
\* cached with the same function; no step starts a new load of it, and an
\* invocation `handlers.<name>(...)` calls the cached function directly.
C11_CachedAfterLoad ==
    [][\A name \in ModuleNames :
          LoadHasResolved(name) =>
              /\ name \in DOMAIN target
              /\ name \in DOMAIN target'
              /\ target'[name] = target[name]
              /\ \A k \in (Len(loads) + 1)..Len(loads') : loads'[k].name # name
              /\ Call(name) =>
                    /\ Len(calls') = Len(calls) + 1
                    /\ calls'[Len(calls')].load = 0
                    /\ calls'[Len(calls')].state = "called"
                    /\ calls'[Len(calls')].fn = target[name]]_vars

\* A name was loaded once and then invoked again: the second invocation ran
\* the cached function, and there is still one load.
C11_Witness ==
    /\ Len(loads) = 1
    /\ loads[1].state = "resolved"
    /\ Len(calls) = 2
    /\ calls[1].load = 1
    /\ calls[2].load = 0
    /\ calls[2].name = loads[1].name
    /\ calls[2].state = "called"

\* C15: when a load of a name fails, the invocations awaiting that load are
\* rejected and call nothing, the failing load stores nothing in the target
\* (a name is cached only by a load that resolved), and an access of a name
\* that is not cached starts a new load of it.
C15_LoadFailurePropagates ==
    [][/\ \A c \in 1..Len(calls) :
             (/\ calls[c].state = "awaiting"
              /\ loads[calls[c].load].state = "rejected"
              /\ calls'[c] # calls[c]) =>
                 /\ calls'[c].state = "rejected"
                 /\ calls'[c].fn = Undefined
       /\ \A k \in 1..Len(loads) :
             (loads[k].state = "pending" /\ loads'[k].state = "rejected") =>
                 target' = target
       /\ \A name \in DOMAIN target' :
             \E k \in 1..Len(loads') :
                 loads'[k].name = name /\ loads'[k].state = "resolved"
       /\ \A c \in 1..Len(calls') :
             calls'[c].state = "rejected" =>
                 loads'[calls'[c].load].state = "rejected"
       /\ \A name \in ModuleNames :
             (name \notin DOMAIN target /\ (Get(name) \/ Call(name))) =>
                 /\ Len(loads') = Len(loads) + 1
                 /\ loads'[Len(loads')].name = name
                 /\ loads'[Len(loads')].state = "pending"]_vars

\* A load failed with two invocations awaiting it, both were rejected, the
\* name is not cached and a later access has started a second load of it.
C15_Witness ==
    /\ Len(loads) = 2
    /\ loads[1].state = "rejected"
    /\ loads[2].name = loads[1].name
    /\ loads[2].state = "pending"
    /\ Len(calls) = 2
    /\ \A c \in 1..2 : calls[c].load = 1 /\ calls[c].state = "rejected"
    /\ loads[1].name \notin DOMAIN target


(***************************************************************************)
(* Properties of the build.                                                *)
(***************************************************************************)
\* The latest build follows a build that returned, with the same options and
\* the same handler map.
RepeatsPreviousBuild ==
    /\ prev.valid
    /\ prev.handlers = build.handlers
    /\ prev.cleanup = build.cleanup
    /\ prev.minify = build.minify

\* C5: a build that follows a returned build with the same options, no
\* registration and no source change in between does not call buildCode for
\* a handler whose `<resolvedId>.js` was in the output directory when it
\* started, and when it returns the output directory holds the same file
\* names and the file list is the same as the earlier build's.
C5_IdempotentBuild ==
    RepeatsPreviousBuild =>
        /\ \A i \in 1..Len(tasks), r \in registered :
              ( /\ tasks[i].kind = "handler"
                /\ tasks[i].wrapper = WrapperOf(r)
                /\ (r.resolvedFilename \o ".js") \in prev.names )
              => ~tasks[i].transpiled
        /\ build.pc = "done" =>
              /\ DOMAIN publicDir = prev.names
              /\ build.files = prev.files

\* A second build returned after skipping the module of a handler that the
\* first had written.
C5_Witness ==
    /\ RepeatsPreviousBuild
    /\ build.pc = "done"
    /\ \E i \in 1..Len(tasks) :
          /\ tasks[i].kind = "handler"
          /\ ~tasks[i].transpiled
          /\ (tasks[i].name \o ".js") \in prev.names
    /\ \E i \in 1..Len(tasks) : tasks[i].kind = "client"

\* The base names of the file list of step 3.
ProducedBaseNames ==
    {SplitDotFirst(build.files[i]) : i \in 1..Len(build.files)}

\* C6 as stated: after a build with cleanup has returned, the output
\* directory holds no file whose base name is absent from the base names
\* produced or kept in step 3.
C6_NoFileOutsideProducedSet ==
    (build.pc = "done" /\ build.cleanup) =>
        \A name \in DOMAIN publicDir :
            publicDir[name].isFile => SplitDotFirst(name) \in ProducedBaseNames

\* C6, amended: after a build with cleanup has returned, the output
\* directory holds no regular file named `*.js` whose base name is absent
\* from the base names of step 3; and cleanup removes only regular `*.js`
\* files whose base name is not in the file list.
C6_NoStaleScriptAfterCleanup ==
    /\ (build.pc = "done" /\ build.cleanup) =>
          \A name \in DOMAIN publicDir :
              (publicDir[name].isFile /\ EndsWith(name, ".js"))
              => SplitDotFirst(name) \in ProducedBaseNames
    /\ \A name \in build.removed :
          /\ EndsWith(name, ".js")
          /\ ~Includes(build.files, SplitDotFirst(name))
          /\ name \notin DOMAIN publicDir

\* A build with cleanup returned after removing the module of a handler that
\* is no longer registered; the module of ping, the style sheet and the
\* subdirectory are still there.
C6_Witness ==
    /\ build.pc = "done"
    /\ build.cleanup
    /\ (ResolvedByHashing["pong", FnSource("f2")] \o ".js") \in build.removed
    /\ (ResolvedByHashing["ping", FnSource("f1")] \o ".js") \in DOMAIN publicDir
    /\ Includes(build.files, ResolvedByHashing["ping", FnSource("f1")])
    /\ "style.css" \in DOMAIN publicDir
    /\ "vendor.js" \in DOMAIN publicDir

\* C14: a transpiler failure in a step-3 task (bootstrap, handler or client
\* file) never fails the build: no task ends by the transpiler's rejection
\* and the build is never rejected.
C14_TranspilerFailureDegrades ==
    /\ \A i \in 1..Len(tasks) : tasks[i].pc # "failed"
    /\ build.pc # "failed"

\* C16: a handler module written by a build is transpiled with the build's
\* minify flag: the file a handler task has written holds the transpiler's
\* output for that flag (or, the transpiler failing, the untranspiled text).
C16_HandlerMinifyFollowsBuild ==
    \A i \in 1..Len(tasks) :
       (/\ tasks[i].kind = "handler"
        /\ tasks[i].wrote
        /\ (tasks[i].name \o ".js") \in DOMAIN publicDir) =>
          publicDir[tasks[i].name \o ".js"].text \in
             {Esbuild(tasks[i].code, "ts", build.minify),
              TransformFailed(tasks[i].code)}

\* The path a step-3 task writes or keeps: `<name>.js` for the bootstrap
\* module and a handler (build.ts lines 141, 181), the source name with its
\* extension replaced for a client file (lines 279-281).
OutputName(task) ==
    IF task.kind = "client" THEN OutBaseName(task.name) \o ".js"
    ELSE task.name \o ".js"

\* C20: when every task of step 3 has completed, the file names in the
\* output directory are those it held when the build started together with
\* the outputs of the tasks, whatever the order the tasks ran and completed
\* in.
C20_FileSetIndependentOfOrder ==
    (/\ build.pc \in {"tasks", "cleanup", "done"}
     /\ build.removed = {}
     /\ \A i \in 1..Len(tasks) : tasks[i].pc = "done") =>
        DOMAIN publicDir =
            prev.names \cup {OutputName(tasks[i]) : i \in 1..Len(tasks)}

\* Step 3 has completed in a directory that held files before, with the
\* bootstrap module, a handler module and a client file written.
C20_Witness ==
    /\ build.pc = "tasks"
    /\ \A i \in 1..Len(tasks) : tasks[i].pc = "done"
    /\ "style.css" \in prev.names
    /\ \A kind \in {"bootstrap", "handler", "client"} :
          \E i \in 1..Len(tasks) : tasks[i].kind = kind /\ tasks[i].wrote

\* C21: within one build the step-3 tasks have pairwise distinct output
\* paths, and no two of them have written the same path.
C21_NoSharedOutputPath ==
    \A i, j \in 1..Len(tasks) :
        i # j =>
            /\ OutputName(tasks[i]) # OutputName(tasks[j])
            /\ ~(/\ tasks[i].wrote
                 /\ tasks[j].wrote
                 /\ OutputName(tasks[i]) = OutputName(tasks[j]))

\* C22: after a build with cleanup has returned, `<base>.js` is in the output
\* directory for every base name of the returned file list.
C22_CleanupKeepsOwnOutputs ==
    (build.pc = "done" /\ build.cleanup) =>
        \A i \in 1..Len(build.files) :
            (build.files[i] \o ".js") \in DOMAIN publicDir

\* C23: cleanup runs only when every step-3 task has completed: while a
\* task has failed the build is rejected, it has removed nothing and every
\* name the output directory held when it started is still there.
C23_CleanupOnlyAfterAllTasks ==
    /\ (build.pc = "cleanup" \/ build.removed # {}) =>
          \A i \in 1..Len(tasks) : tasks[i].pc = "done"
    /\ (\E i \in 1..Len(tasks) : tasks[i].pc = "failed") =>
          /\ build.pc = "failed"
          /\ build.removed = {}
          /\ prev.names \subseteq DOMAIN publicDir

\* A build with cleanup was rejected by a failed task, the other tasks have
\* settled, and the module of a handler that is no longer registered, which
\* cleanup would remove, is still in the output directory.
C23_Witness ==
    /\ build.pc = "failed"
    /\ build.cleanup
    /\ TasksSettled
    /\ \E i \in 1..Len(tasks) : tasks[i].pc = "failed"
    /\ \E i \in 1..Len(tasks) : tasks[i].wrote
    /\ (ResolvedByHashing["pong", FnSource("f2")] \o ".js") \in DOMAIN publicDir

\* The first line of a text.
FirstLine(text) ==
    LET breaks == {i \in 1..Len(text) : SubSeq(text, i, i) = "\n"}
    IN  IF breaks = {} THEN text
        ELSE SubSeq(text, 1, (CHOOSE i \in breaks : \A k \in breaks : i <= k) - 1)

\* The bootstrap module exists with the current version marker as its first
\* line.
HasCurrentMarker(dir) ==
    /\ "clientFunctions.js" \in DOMAIN dir
    /\ dir["clientFunctions.js"].isFile
    /\ FirstLine(dir["clientFunctions.js"].text) = VersionComment

\* C24: the bootstrap task calls the transpiler exactly when the existing
\* clientFunctions.js does not have the current version marker as its first
\* line; when it has, the task neither transpiles nor writes; and the file
\* the task writes has the current marker as its first line.
C24_BootstrapRegeneratedOnMarkerMismatch ==
    [][\A i \in 1..Len(tasks) :
          /\ BootstrapCheck(i) =>
                /\ (tasks'[i].pc = "transform") = ~HasCurrentMarker(publicDir)
                /\ HasCurrentMarker(publicDir) =>
                      /\ tasks'[i].pc = "done"
                      /\ ~tasks'[i].transpiled
                      /\ publicDir' = publicDir
          /\ BootstrapWritten(i) => HasCurrentMarker(publicDir')]_vars

\* C25: a client-file task returns without transpiling or writing exactly
\* when its output exists with an mtime not older than the source's, both
\* mtimes being available; otherwise it transpiles with the tsx loader for a
\* .tsx source and the ts loader for any other and writes `<base>.js`; in
\* both cases it returns the base name.
C25_ClientFileSkipOrTranspile ==
    [][\A i \in 1..Len(tasks) :
          LET entry == tasks[i].entry
              name == tasks[i].name
              tsx == EndsWith(name, ".tsx")
              base == SubSeq(name, 1, Len(name) - (IF tsx THEN 4 ELSE 3))
              out == base \o ".js"
              fresh == /\ entry.mtime # Null
                       /\ out \in DOMAIN publicDir
                       /\ publicDir[out].mtime >= entry.mtime[1]
          IN  /\ ClientStat(i) =>
                    /\ publicDir' = publicDir
                    /\ ~tasks'[i].wrote
                    /\ fresh => /\ tasks'[i].pc = "done"
                                /\ ~tasks'[i].transpiled
                                /\ tasks'[i].result = base
                    /\ ~fresh => /\ tasks'[i].pc = "transform"
                                 /\ tasks'[i].transpiled
              /\ ClientWritten(i) =>
                    /\ tasks'[i].pc = "done"
                    /\ tasks'[i].result = base
                    /\ out \in DOMAIN publicDir'
                    /\ publicDir'[out].text =
                          Esbuild(tasks[i].code, IF tsx THEN "tsx" ELSE "ts",
                                  build.minify)]_vars

\* In a second build app.min.tsx was skipped, its output of the first build
\* being newer, while clientFunctions.ts, whose mtime cannot be read, was
\* transpiled and written again.
C25_Witness ==
    /\ build.n = 2
    /\ Len(tasks) = 3
    /\ tasks[2].name = "clientFunctions.ts" /\ tasks[2].wrote
    /\ tasks[3].name = "app.min.tsx" /\ tasks[3].pc = "done"
    /\ ~tasks[3].transpiled /\ tasks[3].result = "app.min"
    /\ "app.min.js" \in DOMAIN publicDir
    /\ publicDir["app.min.js"].text = Esbuild("/* app.min.tsx */", "tsx", prev.minify)

\* The resolved id the constructor computed for a wrapper.
ResolvedIdOf(wrapper) ==
    (CHOOSE reg \in registered : WrapperOf(reg) = wrapper).resolvedFilename

\* The file list the build is to return: the bootstrap name, the resolved
\* ids of the handlers in the map's order at the start of the build, the
\* base names of the client sources in scan order.
ExpectedFiles ==
    LET sources == ScanClientDir(clientDir)
    IN  <<"clientFunctions">>
        \o [i \in 1..Len(build.handlers) |-> ResolvedIdOf(build.handlers[i].wrapper)]
        \o [i \in 1..Len(sources) |->
              SubSeq(sources[i].name, 1,
                     Len(sources[i].name)
                        - (IF EndsWith(sources[i].name, ".tsx") THEN 4 ELSE 3))]

\* C27: the file list of a build whose tasks have all completed is the
\* bootstrap name, then the resolved id of every handler in insertion order,
\* then the base name of every client file in scan order, whatever the order
\* the tasks completed in and whether they built or skipped.
C27_FileListInTaskOrder ==
    build.pc \in {"cleanup", "done"} => build.files = ExpectedFiles









====
